---------------------------- MODULE Spec2Model ----------------------------
(***************************************************************************)
(* Model of aplicativo_imobiliaria.py: the lead-intake funnel (app,        *)
(* perguntar_proximo_campo), its validators and normalizer, the dedup key  *)
(* (_gerar_dedup_key) and the persistence layer (salvar_lead,              *)
(* _append_to_csv).                                                        *)
(*                                                                         *)
(* A Python str is a sequence of characters; a character is a one-token    *)
(* string.  Two non-ASCII characters are named by a token:                 *)
(*   "d3_arab"  U+0663 ARABIC-INDIC DIGIT THREE (category Nd: matched by   *)
(*              \d, str.isdigit() is True, int() parses it as 3)           *)
(*   "sup2"     U+00B2 SUPERSCRIPT TWO (category No: not matched by \d,    *)
(*              str.isdigit() is True, int() raises ValueError)            *)
(* A Python value is a record [t, s]   : a str, an int, a float NaN (an    *)
(* empty spreadsheet cell as pandas reads it) or a raised exception.       *)
(***************************************************************************)
EXTENDS Integers, Sequences, FiniteSets, TLC

VARIABLES
    inited,     \* "lead" in st.session_state
    step,       \* st.session_state.step
    lead,       \* st.session_state.lead (field key -> value)
    greeted,    \* some assistant message is in st.session_state.messages
    utm,        \* st.session_state.utm
    last,       \* the last script run: its input, what it appended to messages
    xlsx,       \* imobiliaria_leads.xlsx
    csv,        \* imobiliaria_leads.csv
    clock,      \* number of salvar_lead calls so far (datetime.now() of the next one)
    entrada,    \* input of a pure function under check
    saida       \* its output

vars == <<inited, step, lead, greeted, utm, last, xlsx, csv, clock, entrada, saida>>

-----------------------------------------------------------------------------
(* Python values *)

PyStr(s) == [t |-> "str", s |-> s]

\* an int of any size, held as its decimal digits without leading zeros
PyInt(digits) == [t |-> "int", s |-> digits]

NaN == [t |-> "nan", s |-> <<>>]

Exc(name) == [t |-> "exc", s |-> <<name>>]

IsExc(x) == x.t = "exc"

\* Python truthiness of a value, as used by `x or ""`
Truthy(x) ==
    CASE x.t = "str" -> x.s # <<>>
      [] x.t = "int" -> x.s # <<"0">>
      [] OTHER -> TRUE

\* `x or ""`
OrEmpty(x) == IF Truthy(x) THEN x ELSE PyStr(<<>>)

-----------------------------------------------------------------------------
(* Characters and the str methods the program uses *)

AsciiDigits == <<"0", "1", "2", "3", "4", "5", "6", "7", "8", "9">>

UpperAlpha == <<"A", "B", "C", "D", "E", "F", "G", "H", "I", "J", "K", "L", "M",
                "N", "O", "P", "Q", "R", "S", "T", "U", "V", "W", "X", "Y", "Z">>

LowerAlpha == <<"a", "b", "c", "d", "e", "f", "g", "h", "i", "j", "k", "l", "m",
                "n", "o", "p", "q", "r", "s", "t", "u", "v", "w", "x", "y", "z">>

Range(f) == {f[i] : i \in DOMAIN f}

IsAsciiDigit(c) == c \in Range(AsciiDigits)

\* \d of the re module on a str pattern: Unicode category Nd
IsReDigit(c) == IsAsciiDigit(c) \/ c = "d3_arab"

\* what str.isdigit() counts as a digit: Nd and the other digit characters
IsStrDigit(c) == IsReDigit(c) \/ c = "sup2"

\* str.isspace() and \s agree
IsSpace(c) == c \in {" ", "\t", "\n"}

RECURSIVE lstrip(_)
lstrip(s) == IF s # <<>> /\ IsSpace(Head(s)) THEN lstrip(Tail(s)) ELSE s

RECURSIVE rstrip(_)
rstrip(s) ==
    IF s # <<>> /\ IsSpace(s[Len(s)]) THEN rstrip(SubSeq(s, 1, Len(s) - 1)) ELSE s

strip(s) == rstrip(lstrip(s))

LowerChar(c) ==
    IF \E i \in DOMAIN UpperAlpha : UpperAlpha[i] = c
    THEN LowerAlpha[CHOOSE i \in DOMAIN UpperAlpha : UpperAlpha[i] = c]
    ELSE c

lower(s) == [i \in 1..Len(s) |-> LowerChar(s[i])]

\* len(s.split()): the number of maximal runs of non-whitespace
SplitLen(s) ==
    Cardinality({i \in 1..Len(s) : ~IsSpace(s[i]) /\ (i = 1 \/ IsSpace(s[i - 1]))})

isdigit(s) == s # <<>> /\ \A i \in 1..Len(s) : IsStrDigit(s[i])

\* the ASCII digit with the value of a decimal digit character
AsciiDigit(c) == IF c = "d3_arab" THEN "3" ELSE c

RECURSIVE StripZeros(_)
StripZeros(s) == IF Len(s) > 1 /\ Head(s) = "0" THEN StripZeros(Tail(s)) ELSE s

\* int(v) for a str v: decimal digits parse, anything else raises ValueError
\* (surrounding whitespace, which int() tolerates, is stripped by the caller)
int(s) ==
    IF s # <<>> /\ \A i \in 1..Len(s) : IsReDigit(s[i])
    THEN PyInt(StripZeros([i \in 1..Len(s) |-> AsciiDigit(s[i])]))
    ELSE Exc("ValueError")

\* str(x) for a str or a non-negative int
str(x) == x.s

-----------------------------------------------------------------------------
(* The funnel's fields, in order *)

PERGUNTAS_keys ==
    <<"nome", "telefone", "email", "operacao", "tipo_imovel",
      "metragem", "quartos", "faixa_preco", "urgencia">>

Campos == Range(PERGUNTAS_keys)

S_casa == <<"c", "a", "s", "a">>

S_apartamento == <<"a", "p", "a", "r", "t", "a", "m", "e", "n", "t", "o">>

S_outro == <<"o", "u", "t", "r", "o">>

S_alta == <<"a", "l", "t", "a">>

S_media == <<"m", "e", "d", "i", "a">>

S_baixa == <<"b", "a", "i", "x", "a">>

S_compra == <<"c", "o", "m", "p", "r", "a">>

S_aluguel == <<"a", "l", "u", "g", "u", "e", "l">>

-----------------------------------------------------------------------------
(* Validators.  A validator returns "True" or "False", or the name of the  *)
(* exception it raises when handed a value that is not a str.               *)

validar_nome(nome) ==
    LET v == OrEmpty(nome) IN
    IF v.t # "str" THEN "AttributeError"
    ELSE IF SplitLen(strip(v.s)) >= 2 THEN "True" ELSE "False"

validar_telefone(telefone) ==
    LET v == OrEmpty(telefone) IN
    IF v.t # "str" THEN "TypeError"
    ELSE IF Len(v.s) = 11 /\ \A i \in 1..11 : IsReDigit(v.s[i]) THEN "True" ELSE "False"

\* [^@\s]+@[^@\s]+\.[^@\s]+ as a full match: exactly one "@", no whitespace,
\* and after the "@" a "." with a character before it and a character after it
EmailMatch(s) ==
    /\ \A i \in 1..Len(s) : ~IsSpace(s[i])
    /\ Cardinality({i \in 1..Len(s) : s[i] = "@"}) = 1
    /\ \E i, j \in 1..Len(s) :
          /\ s[i] = "@"
          /\ s[j] = "."
          /\ 1 < i
          /\ i + 1 < j
          /\ j < Len(s)

validar_email(email) ==
    LET v == OrEmpty(email) IN
    IF v.t # "str" THEN "TypeError"
    ELSE IF EmailMatch(v.s) THEN "True" ELSE "False"

validar_operacao(op) ==
    IF op.t = "str" /\ op.s \in {<<"1">>, <<"2">>} THEN "True" ELSE "False"

validar_tipo_imovel(tipo) ==
    LET v == OrEmpty(tipo) IN
    IF v.t # "str" THEN "AttributeError"
    ELSE IF lower(strip(v.s)) \in {S_casa, S_apartamento, S_outro} THEN "True" ELSE "False"

validar_numero(valor) ==
    LET v == OrEmpty(valor) IN
    IF v.t # "str" THEN "AttributeError"
    ELSE IF isdigit(v.s) THEN "True" ELSE "False"

validar_urgencia(u) ==
    LET v == OrEmpty(u) IN
    IF v.t # "str" THEN "AttributeError"
    ELSE IF lower(strip(v.s)) \in {S_alta, S_media, S_baixa} THEN "True" ELSE "False"

\* VALIDADORES[chave](x)
VALIDADORES(chave, x) ==
    CASE chave = "nome" -> validar_nome(x)
      [] chave = "telefone" -> validar_telefone(x)
      [] chave = "email" -> validar_email(x)
      [] chave = "operacao" -> validar_operacao(x)
      [] chave = "tipo_imovel" -> validar_tipo_imovel(x)
      [] chave \in {"metragem", "quartos"} -> validar_numero(x)
      [] chave = "faixa_preco" -> "True"
      [] chave = "urgencia" -> validar_urgencia(x)

\* normalizar_campo without the conversion of digit strings to int
normalizar_campo_sem_int(chave, valor) ==
    LET w == OrEmpty(valor) IN
    IF w.t # "str" THEN Exc("AttributeError")
    ELSE LET v == strip(w.s) IN
         IF chave \in {"tipo_imovel", "urgencia"} THEN PyStr(lower(v))
         ELSE IF chave = "operacao"
              THEN (IF v = <<"1">> THEN PyStr(S_compra) ELSE PyStr(S_aluguel))
              ELSE PyStr(v)

\* normalizar_campo with the field test of its first branch dropped
normalizar_campo_int_qualquer(chave, valor) ==
    LET w == OrEmpty(valor) IN
    IF w.t # "str" THEN Exc("AttributeError")
    ELSE LET v == strip(w.s) IN
         IF isdigit(v) THEN int(v)
         ELSE IF chave \in {"tipo_imovel", "urgencia"} THEN PyStr(lower(v))
         ELSE IF chave = "operacao"
              THEN (IF v = <<"1">> THEN PyStr(S_compra) ELSE PyStr(S_aluguel))
              ELSE PyStr(v)

normalizar_campo(chave, valor) ==
    LET w == OrEmpty(valor) IN
    IF w.t # "str" THEN Exc("AttributeError")
    ELSE LET v == strip(w.s) IN
         IF chave \in {"metragem", "quartos"} /\ isdigit(v) THEN int(v)
         ELSE IF chave \in {"tipo_imovel", "urgencia"} THEN PyStr(lower(v))
         ELSE IF chave = "operacao"
              THEN (IF v = <<"1">> THEN PyStr(S_compra) ELSE PyStr(S_aluguel))
              ELSE PyStr(v)

-----------------------------------------------------------------------------
(* Dedup key *)

\* dict.get(k, default)
Get(d, k, default) == IF k \in DOMAIN d THEN d[k] ELSE default

\* re.sub(r"\D+", "", s)
StripNonDigits(s) == SelectSeq(s, IsReDigit)

\* hashlib.sha256(base).hexdigest(): a collision-free digest of base, which is
\* not base itself
sha256_hexdigest(base) == <<"sha256">> \o base

\* the text the digest is computed from: f"{tel}|{email}"
DedupBase(ld) ==
    LET tel_raw == str(Get(ld, "telefone", PyStr(<<>>)))
        digits == StripNonDigits(tel_raw)
        tel == IF Len(digits) = 11 THEN digits ELSE <<>>
        email == lower(strip(OrEmpty(Get(ld, "email", PyStr(<<>>))).s))
    IN  tel \o <<"|">> \o email

\* _gerar_dedup_key without the .lower() of the e-mail
gerar_dedup_key_sem_lower(ld) ==
    LET tel_raw == str(Get(ld, "telefone", PyStr(<<>>)))
        digits == StripNonDigits(tel_raw)
        tel == IF Len(digits) = 11 THEN digits ELSE <<>>
        email == strip(OrEmpty(Get(ld, "email", PyStr(<<>>))).s)
    IN  PyStr(sha256_hexdigest(tel \o <<"|">> \o email))

gerar_dedup_key(ld) == PyStr(sha256_hexdigest(DedupBase(ld)))

-----------------------------------------------------------------------------
(* salvar_lead: the record, the two files *)

APP_ORIGIN == PyStr(<<>>)

UtmKeys == <<"utm_source", "utm_medium", "utm_campaign", "utm_term", "utm_content">>

base_campos == <<"lead_id", "dedup_key", "criado_em", "app_origin">> \o UtmKeys

\* the list the function builds and never uses
ordem == base_campos \o PERGUNTAS_keys

\* the keys of registro in insertion order, which are the columns of
\* pd.DataFrame([registro]): dedup_key is inserted last
DfColumns ==
    <<"lead_id", "criado_em", "app_origin">> \o UtmKeys \o PERGUNTAS_keys
        \o <<"dedup_key">>

DfColumnSet == Range(DfColumns)

UtmKeySet == Range(UtmKeys)

\* the set of the columns cols
ColSet(cols) == IF cols = DfColumns THEN DfColumnSet ELSE Range(cols)

\* registro before its dedup_key is added
registro_sem_key(ld, lead_id, utm_s, now) ==
    [c \in DfColumnSet \ {"dedup_key"} |->
        CASE c = "lead_id" -> lead_id
          [] c = "criado_em" -> now
          [] c = "app_origin" -> APP_ORIGIN
          [] c \in UtmKeySet -> Get(utm_s, c, PyStr(<<>>))
          [] OTHER -> Get(ld, c, PyStr(<<>>))]

registro(ld, lead_id, utm_s, now) ==
    LET r == registro_sem_key(ld, lead_id, utm_s, now)
    IN  ("dedup_key" :> gerar_dedup_key(r)) @@ r

\* str(uuid.uuid4()) of the n-th session
Uuid(n) == PyStr(<<"uuid", AsciiDigits[n + 1]>>)

\* datetime.datetime.now().isoformat(timespec="seconds") at logical time n
IsoTime(n) == PyStr(<<"T", AsciiDigits[n + 1]>>)

XLSX_NAME == "imobiliaria_leads.xlsx"

CSV_NAME == "imobiliaria_leads.csv"

\* a spreadsheet cell as read_excel returns it: an empty cell, which is what
\* to_excel writes for "" and for NaN, reads as NaN
Cell(v) == IF v = PyStr(<<>>) THEN NaN ELSE v

Absent == [st |-> "absent", cols |-> <<>>, rows |-> <<>>]

Corrupt == [st |-> "corrupt", cols |-> <<>>, rows |-> <<>>]

\* DataFrame.to_excel(path): the file's table
to_excel(cols, rows) ==
    [st |-> "ok", cols |-> cols,
     rows |-> [i \in 1..Len(rows) |-> [c \in ColSet(cols) |-> Cell(rows[i][c])]]]

\* Series.astype(str) of one cell
AsTypeStr(v) == IF v.t = "nan" THEN <<"n", "a", "n">> ELSE str(v)

\* MaskRows comparing the lead_id cell instead of the dedup_key cell
MaskRows_lead_id(atual, key) ==
    {i \in 1..Len(atual.rows) : AsTypeStr(atual.rows[i]["lead_id"]) = key.s}

\* atual.index[mask]: the rows whose dedup_key cell, as a str, is key
MaskRows(atual, key) ==
    {i \in 1..Len(atual.rows) : AsTypeStr(atual.rows[i]["dedup_key"]) = key.s}

Min(S) == CHOOSE x \in S : \A y \in S : x <= y

\* the columns of a frame after columns `more` are added where missing
WithColumns(cols, more) ==
    IF cols = more THEN cols
    ELSE cols \o SelectSeq(more, LAMBDA c : c \notin Range(cols))

\* UpdatedRows overwriting every row with the key (atual.loc[mask, col] = ...),
\* not the first one
UpdatedRows_todas(atual, reg, idx) ==
    LET cols == WithColumns(atual.cols, DfColumns) IN
    [i \in 1..Len(atual.rows) |->
        [c \in ColSet(cols) |->
            IF i \in MaskRows(atual, reg["dedup_key"]) /\ c \in DfColumnSet THEN reg[c]
            ELSE IF c \in ColSet(atual.cols) THEN atual.rows[i][c]
            ELSE PyStr(<<>>)]]

\* lines 196-201: atual with the first matching row overwritten by registro,
\* each missing column added with "" in every row first
UpdatedRows(atual, reg, idx) ==
    LET cols == WithColumns(atual.cols, DfColumns) IN
    [i \in 1..Len(atual.rows) |->
        [c \in ColSet(cols) |->
            IF i = idx /\ c \in DfColumnSet THEN reg[c]
            ELSE IF c \in ColSet(atual.cols) THEN atual.rows[i][c]
            ELSE PyStr(<<>>)]]

\* pd.concat([atual, df], ignore_index=True): the union of the columns, NaN
\* where a frame has no such column
ConcatRows(atual, reg) ==
    LET cols == WithColumns(atual.cols, DfColumns) IN
    [i \in 1..(Len(atual.rows) + 1) |->
        [c \in ColSet(cols) |->
            IF i <= Len(atual.rows)
            THEN (IF c \in ColSet(atual.cols) THEN atual.rows[i][c] ELSE NaN)
            ELSE (IF c \in DfColumnSet THEN reg[c] ELSE NaN)]]

\* to_csv's text of one value
CsvText(v) == IF v.t = "nan" THEN <<>> ELSE str(v)

\* append_to_csv that writes the header on every call
append_to_csv_header_sempre(f, reg) ==
    [exists |-> TRUE,
     linhas |-> f.linhas
        \o <<[header |-> TRUE,
              cells |-> [i \in 1..Len(DfColumns) |-> <<DfColumns[i]>>]]>>
        \o <<[header |-> FALSE,
              cells |-> [i \in 1..Len(DfColumns) |-> CsvText(reg[DfColumns[i]])]]>>]

\* _append_to_csv: a header line if the file did not exist, then the record
append_to_csv(f, reg) ==
    [exists |-> TRUE,
     linhas |-> f.linhas
        \o (IF f.exists THEN <<>>
            ELSE <<[header |-> TRUE,
                    cells |-> [i \in 1..Len(DfColumns) |-> <<DfColumns[i]>>]]>>)
        \o <<[header |-> FALSE,
              cells |-> [i \in 1..Len(DfColumns) |-> CsvText(reg[DfColumns[i]])]]>>]

\* What the environment does to the files during one call.  primary: the
\* spreadsheet reads and writes, or read_excel raises, or to_excel raises and
\* leaves the file as it was, or to_excel raises and leaves a damaged file.
\* csv: whether to_csv can append.
IOs == [primary : {"ok", "read_fails", "write_fails", "write_torn"}, csv : BOOLEAN]

AllOk == [primary |-> "ok", csv |-> TRUE]

\* PrimaryPath without the test of line 193: atual["dedup_key"] raises KeyError
\* on a table that has no such column
PrimaryPath_sem_teste(x, reg, io) ==
    LET write == io.primary \notin {"write_fails", "write_torn"}
        failed == [xlsx |-> IF io.primary = "write_torn" THEN Corrupt ELSE x,
                   resultado |-> "except"]
    IN
    IF x.st = "absent" THEN
        IF write
        THEN [xlsx |-> to_excel(DfColumns, <<reg>>), resultado |-> "created"]
        ELSE failed
    ELSE IF x.st = "corrupt" \/ io.primary = "read_fails" \/ "dedup_key" \notin ColSet(x.cols)
    THEN [xlsx |-> x, resultado |-> "except"]
    ELSE IF "dedup_key" \in ColSet(x.cols) /\ MaskRows(x, reg["dedup_key"]) # {} THEN
        IF write
        THEN [xlsx |-> to_excel(WithColumns(x.cols, DfColumns),
                                UpdatedRows(x, reg, Min(MaskRows(x, reg["dedup_key"])))),
              resultado |-> "updated"]
        ELSE failed
    ELSE
        IF write
        THEN [xlsx |-> to_excel(WithColumns(x.cols, DfColumns), ConcatRows(x, reg)),
              resultado |-> "created"]
        ELSE failed

\* the try block, lines 188-209: the spreadsheet afterwards, and the status
\* returned, or "except" when a read or a write raised
PrimaryPath(x, reg, io) ==
    LET write == io.primary \notin {"write_fails", "write_torn"}
        failed == [xlsx |-> IF io.primary = "write_torn" THEN Corrupt ELSE x,
                   resultado |-> "except"]
    IN
    IF x.st = "absent" THEN
        IF write
        THEN [xlsx |-> to_excel(DfColumns, <<reg>>), resultado |-> "created"]
        ELSE failed
    ELSE IF x.st = "corrupt" \/ io.primary = "read_fails"
    THEN [xlsx |-> x, resultado |-> "except"]
    ELSE IF "dedup_key" \in ColSet(x.cols) /\ MaskRows(x, reg["dedup_key"]) # {} THEN
        IF write
        THEN [xlsx |-> to_excel(WithColumns(x.cols, DfColumns),
                                UpdatedRows(x, reg, Min(MaskRows(x, reg["dedup_key"])))),
              resultado |-> "updated"]
        ELSE failed
    ELSE
        IF write
        THEN [xlsx |-> to_excel(WithColumns(x.cols, DfColumns), ConcatRows(x, reg)),
              resultado |-> "created"]
        ELSE failed

\* salvar_lead with the exception of _append_to_csv caught and ignored
salvar_lead_engole(x, f, reg, io) ==
    LET p == PrimaryPath(x, reg, io) IN
    IF p.resultado # "except"
    THEN [xlsx |-> p.xlsx, csv |-> f, caminho |-> XLSX_NAME, resultado |-> p.resultado]
    ELSE [xlsx |-> p.xlsx, csv |-> IF io.csv THEN append_to_csv(f, reg) ELSE f,
          caminho |-> CSV_NAME, resultado |-> "appended_csv"]

\* salvar_lead: the two files afterwards, the path and the status returned;
\* resultado "raised" when the exception of _append_to_csv leaves the function
salvar_lead(x, f, reg, io) ==
    LET p == PrimaryPath(x, reg, io) IN
    IF p.resultado # "except"
    THEN [xlsx |-> p.xlsx, csv |-> f, caminho |-> XLSX_NAME, resultado |-> p.resultado]
    ELSE IF io.csv
         THEN [xlsx |-> p.xlsx, csv |-> append_to_csv(f, reg),
               caminho |-> CSV_NAME, resultado |-> "appended_csv"]
         ELSE [xlsx |-> p.xlsx, csv |-> f, caminho |-> "", resultado |-> "raised"]

-----------------------------------------------------------------------------
(* Answers a visitor may type *)

T_11987654321 == <<"1", "1", "9", "8", "7", "6", "5", "4", "3", "2", "1">>

T_21987654321 == <<"2", "1", "9", "8", "7", "6", "5", "4", "3", "2", "1">>

\* eleven digits, one of them Arabic-Indic
T_arab == <<"1", "1", "9", "8", "7", "6", "5", "4", "d3_arab", "2", "1">>

\* (11) 98765-4321
T_formatado ==
    <<"(", "1", "1", ")", " ", "9", "8", "7", "6", "5", "-", "4", "3", "2", "1">>

T_10_digitos == <<"1", "1", "9", "8", "7", "6", "5", "4", "3", "2">>

T_com_espaco == <<" ">> \o T_11987654321 \o <<" ">>

E_ab == <<"a", "@", "b", ".", "c">>

E_Ab == <<"A", "@", "b", ".", "c">>

E_xb == <<"x", "@", "b", ".", "c">>

RespostasNome == {<<"A", " ", "B">>, <<" ", "C", " ", "D", " ">>, <<"A">>, <<" ">>}

RespostasTelefone == {T_11987654321, T_21987654321, T_arab, T_formatado, T_10_digitos}

RespostasEmail == {E_ab, E_Ab, <<"a", "@", "b">>, <<"a", " ", "@", "b", ".", "c">>}

RespostasOperacao == {<<"1">>, <<"2">>, <<"3">>, S_compra}

RespostasTipo == {S_casa, <<" ", "C", "A", "S", "A">>, <<"l", "o", "j", "a">>}

RespostasNumero == {<<"8", "0">>, <<"sup2">>, <<" ", "8", "0">>, <<"8", "m">>}

RespostasFaixa == {<<"5", "0", "0">>, <<" ">>}

RespostasUrgencia == {S_alta, <<"A", "L", "T", "A", " ">>, <<"j", "a">>}

\* what a visitor may answer when asked for field chave
Respostas(chave) ==
    CASE chave = "nome" -> RespostasNome
      [] chave = "telefone" -> RespostasTelefone
      [] chave = "email" -> RespostasEmail
      [] chave = "operacao" -> RespostasOperacao
      [] chave = "tipo_imovel" -> RespostasTipo
      [] chave \in {"metragem", "quartos"} -> RespostasNumero
      [] chave = "faixa_preco" -> RespostasFaixa
      [] chave = "urgencia" -> RespostasUrgencia

\* every answer above, and a few more, offered to every field
RawPool ==
    UNION {Respostas(k) : k \in Campos}
        \cup {T_com_espaco, E_xb, <<"0">>, <<"2">>, <<"d3_arab">>, S_apartamento,
              <<"M", "e", "d", "i", "a">>, <<"A", " ", " ", "B">>}

\* a lead with the given name, phone and e-mail
LeadDe(nome, telefone, email) ==
    [k \in Campos |->
        CASE k = "nome" -> PyStr(nome)
          [] k = "telefone" -> PyStr(telefone)
          [] k = "email" -> PyStr(email)
          [] k = "operacao" -> PyStr(S_compra)
          [] k = "tipo_imovel" -> PyStr(S_casa)
          [] k = "metragem" -> PyInt(<<"8", "0">>)
          [] k = "quartos" -> PyInt(<<"2">>)
          [] k = "faixa_preco" -> PyStr(<<"5", "0", "0">>)
          [] k = "urgencia" -> PyStr(S_alta)]

-----------------------------------------------------------------------------
(* The state before anything ran *)

NoUtm == [k \in Range(UtmKeys) |-> PyStr(<<>>)]

\* the campaign parameters of the URL a session was opened with
Utms == {NoUtm, [NoUtm EXCEPT !["utm_source"] = PyStr(<<"a", "d", "s">>)]}

NoRun ==
    [op |-> "none", raw |-> <<>>, io |-> AllOk, validou |-> FALSE, salvou |-> FALSE,
     resultado |-> "none", reply |-> <<>>]

FunnelInit ==
    /\ inited = FALSE
    /\ step = 0
    /\ lead = <<>>
    /\ greeted = FALSE
    /\ utm = NoUtm
    /\ last = NoRun

StoreInit ==
    /\ xlsx = Absent
    /\ csv = [exists |-> FALSE, linhas |-> <<>>]
    /\ clock = 0

NoSaida == [feito |-> FALSE, a |-> PyStr(<<>>), b |-> PyStr(<<>>),
            c |-> PyStr(<<>>), d |-> PyStr(<<>>)]

funnelVars == <<inited, step, lead, greeted, utm, last>>

storeVars == <<xlsx, csv, clock>>

-----------------------------------------------------------------------------
(* The funnel: one script run of app() per action *)

\* one entry of st.session_state.messages written by the assistant
Msg(kind, arg) == [kind |-> kind, arg |-> arg, atualizado |-> FALSE]

WELCOME_MSG == Msg("welcome", "")

\* PERGUNTAS[chave], the canonical prompt
Pergunta(chave) == Msg("pergunta", chave)

\* the paraphrase of the prompt of chave that the chat model returned
TextoAi(chave) == Msg("texto_ai", chave)

Entendi == Msg("entendi", "")

\* mensagens_erro.get(chave, ...), shown after the warning sign
MensagemErro(chave) ==
    IF chave = "faixa_preco" THEN Msg("erro", "default") ELSE Msg("erro", chave)

\* "Obrigada! Se quiser, posso anotar mais preferencias ..."
Resposta == Msg("obrigada", "")

\* "Perfeito! Seu cadastro esta completo e salvo. Arquivo: <name> ..."
MsgFinal(caminho, resultado) ==
    [kind |-> "final", arg |-> caminho, atualizado |-> (resultado = "updated")]

\* what _mensagem_ai_ack_e_pergunta may return on one call: None (paraphrasing
\* disabled, no client, an error, an empty completion) or a text
TextosAi == {"None", "texto"}

\* the session's lead_id; an earlier session's is Uuid(0)
LEAD_ID == Uuid(1)

\* perguntar_proximo_campo with the session at step st holding lead ld: the
\* messages it appends, the files afterwards, whether salvar_lead ran and what
\* it returned
perguntar_proximo_campo(st, ld, texto_ai, io) ==
    IF st < Len(PERGUNTAS_keys) THEN
        LET chave == PERGUNTAS_keys[st + 1] IN
        [reply |-> <<IF texto_ai = "None" THEN Pergunta(chave) ELSE TextoAi(chave)>>,
         xlsx |-> xlsx, csv |-> csv, clock |-> clock,
         salvou |-> FALSE, resultado |-> "none"]
    ELSE
        LET r == salvar_lead(xlsx, csv, registro(ld, LEAD_ID, utm, IsoTime(clock)), io)
        IN  [reply |-> IF r.resultado = "raised" THEN <<>>
                       ELSE <<MsgFinal(r.caminho, r.resultado)>>,
             xlsx |-> r.xlsx, csv |-> r.csv, clock |-> clock + 1,
             salvou |-> TRUE, resultado |-> r.resultado]

\* lines 306-336: the first run of the session, opened with campaign
\* parameters u
Open(u, texto_ai) ==
    /\ ~inited
    /\ inited' = TRUE
    /\ lead' = <<>>
    /\ step' = 0
    /\ utm' = u
    /\ greeted' = TRUE
    /\ LET p == perguntar_proximo_campo(0, <<>>, texto_ai, AllOk) IN
       last' = [op |-> "open", raw |-> <<>>, io |-> AllOk, validou |-> FALSE,
                salvou |-> p.salvou, resultado |-> p.resultado,
                reply |-> <<WELCOME_MSG>> \o p.reply]
    /\ UNCHANGED <<storeVars, entrada, saida>>

\* SubmitValido with the step advanced before the answer is normalized
SubmitValido_step_antes(raw, chave, texto_ai, io) ==
    LET norm == normalizar_campo(chave, PyStr(raw)) IN
    IF IsExc(norm) THEN
        /\ last' = [op |-> "submit", raw |-> raw, io |-> AllOk, validou |-> TRUE,
                    salvou |-> FALSE, resultado |-> norm.s[1], reply |-> <<>>]
        /\ step' = step + 1
        /\ UNCHANGED <<lead, storeVars>>
    ELSE
        LET ld == (chave :> norm) @@ lead
            st == step + 1
            p == perguntar_proximo_campo(st, ld, texto_ai, io)
        IN  /\ lead' = ld
            /\ step' = st
            /\ xlsx' = p.xlsx
            /\ csv' = p.csv
            /\ clock' = p.clock
            /\ last' = [op |-> "submit", raw |-> raw, io |-> io, validou |-> TRUE,
                        salvou |-> p.salvou, resultado |-> p.resultado,
                        reply |-> <<Entendi>> \o p.reply]

\* SubmitValido that keeps the paraphraser's text where it keeps the answer
SubmitValido_guarda_texto(raw, chave, texto_ai, io) ==
    LET norm == normalizar_campo(chave, PyStr(raw)) IN
    IF IsExc(norm) THEN
        /\ last' = [op |-> "submit", raw |-> raw, io |-> AllOk, validou |-> TRUE,
                    salvou |-> FALSE, resultado |-> norm.s[1], reply |-> <<>>]
        /\ UNCHANGED <<lead, step, storeVars>>
    ELSE
        LET ld == (chave :> (IF texto_ai = "None" THEN norm ELSE PyStr(<<texto_ai>>)))
                      @@ lead
            st == step + 1
            p == perguntar_proximo_campo(st, ld, texto_ai, io)
        IN  /\ lead' = ld
            /\ step' = st
            /\ xlsx' = p.xlsx
            /\ csv' = p.csv
            /\ clock' = p.clock
            /\ last' = [op |-> "submit", raw |-> raw, io |-> io, validou |-> TRUE,
                        salvou |-> p.salvou, resultado |-> p.resultado,
                        reply |-> <<Entendi>> \o p.reply]

\* lines 363-369: the answer is valid
SubmitValido(raw, chave, texto_ai, io) ==
    LET norm == normalizar_campo(chave, PyStr(raw)) IN
    IF IsExc(norm) THEN
        \* the exception ends the script run: nothing but the user's message
        \* was added
        /\ last' = [op |-> "submit", raw |-> raw, io |-> AllOk, validou |-> TRUE,
                    salvou |-> FALSE, resultado |-> norm.s[1], reply |-> <<>>]
        /\ UNCHANGED <<lead, step, storeVars>>
    ELSE
        LET ld == (chave :> norm) @@ lead
            st == step + 1
            p == perguntar_proximo_campo(st, ld, texto_ai, io)
        IN  /\ lead' = ld
            /\ step' = st
            /\ xlsx' = p.xlsx
            /\ csv' = p.csv
            /\ clock' = p.clock
            /\ last' = [op |-> "submit", raw |-> raw, io |-> io, validou |-> TRUE,
                        salvou |-> p.salvou, resultado |-> p.resultado,
                        reply |-> <<Entendi>> \o p.reply]

\* SubmitInvalido that keeps the rejected answer
SubmitInvalido_guarda(raw, chave) ==
    /\ last' = [op |-> "submit", raw |-> raw, io |-> AllOk, validou |-> TRUE,
                salvou |-> FALSE, resultado |-> "none",
                reply |-> <<MensagemErro(chave), Pergunta(chave)>>]
    /\ lead' = (chave :> PyStr(raw)) @@ lead
    /\ UNCHANGED <<step, storeVars>>

\* lines 370-387: the answer is not valid
SubmitInvalido(raw, chave) ==
    /\ last' = [op |-> "submit", raw |-> raw, io |-> AllOk, validou |-> TRUE,
                salvou |-> FALSE, resultado |-> "none",
                reply |-> <<MensagemErro(chave), Pergunta(chave)>>]
    /\ UNCHANGED <<lead, step, storeVars>>

\* SubmitConcluido that starts the funnel again
SubmitConcluido_reinicia(raw) ==
    /\ last' = [op |-> "submit", raw |-> raw, io |-> AllOk, validou |-> FALSE,
                salvou |-> FALSE, resultado |-> "none", reply |-> <<Resposta>>]
    /\ step' = 0
    /\ UNCHANGED <<lead, storeVars>>

\* SubmitConcluido that calls perguntar_proximo_campo, as the valid branch does
SubmitConcluido_salva(raw) ==
    LET p == perguntar_proximo_campo(step, lead, "None", AllOk)
    IN  /\ xlsx' = p.xlsx
        /\ csv' = p.csv
        /\ clock' = p.clock
        /\ last' = [op |-> "submit", raw |-> raw, io |-> AllOk, validou |-> FALSE,
                    salvou |-> p.salvou, resultado |-> p.resultado,
                    reply |-> <<Resposta>>]
        /\ UNCHANGED <<lead, step>>

\* lines 388-395: the funnel is complete
SubmitConcluido(raw) ==
    /\ last' = [op |-> "submit", raw |-> raw, io |-> AllOk, validou |-> FALSE,
                salvou |-> FALSE, resultado |-> "none", reply |-> <<Resposta>>]
    /\ UNCHANGED <<lead, step, storeVars>>

\* lines 345-395: a run with a message from the visitor
Submit(raw, texto_ai, io) ==
    /\ inited
    /\ raw # <<>>
    /\ IF step < Len(PERGUNTAS_keys)
       THEN LET chave == PERGUNTAS_keys[step + 1] IN
            IF VALIDADORES(chave, PyStr(raw)) = "True"
            THEN SubmitValido(raw, chave, texto_ai, io)
            ELSE SubmitInvalido(raw, chave)
       ELSE SubmitConcluido(raw)
    /\ UNCHANGED <<inited, greeted, utm, entrada, saida>>

\* what the visitor may type now
RespostasAgora ==
    IF step < Len(PERGUNTAS_keys) THEN Respostas(PERGUNTAS_keys[step + 1])
    ELSE {<<"o", "i">>, S_alta}

\* the file system misbehaves only where a file is touched
IOsAgora == IF step = Len(PERGUNTAS_keys) - 1 THEN IOs ELSE {AllOk}

\* the spreadsheet a session may find: none, or the one an earlier session
\* wrote when it completed the funnel
Anterior(telefone) ==
    to_excel(DfColumns,
             <<registro(LeadDe(<<"C", " ", "D">>, telefone, E_ab), Uuid(0), NoUtm,
                        IsoTime(0))>>)

Init ==
    /\ FunnelInit
    /\ xlsx \in {Absent, Anterior(T_11987654321)}
    /\ csv = [exists |-> FALSE, linhas |-> <<>>]
    /\ clock = 1
    /\ entrada = <<>>
    /\ saida = NoSaida

Next ==
    \/ \E u \in Utms, texto_ai \in TextosAi : Open(u, texto_ai)
    \/ \E raw \in RespostasAgora, texto_ai \in TextosAi, io \in IOsAgora :
          Submit(raw, texto_ai, io)

Spec == Init /\ [][Next]_vars

-----------------------------------------------------------------------------
(* salvar_lead alone: completed sessions save their leads one after another *)

MaxUpserts == 2

\* the values the funnel stores for field chave, given the answers above
ValoresAceitos(chave) ==
    {v \in {normalizar_campo(chave, PyStr(r)) :
                r \in {q \in Respostas(chave) : VALIDADORES(chave, PyStr(q)) = "True"}} :
        ~IsExc(v)}

\* some of the leads a completed funnel holds: two phones, two names
LeadsUpsert ==
    {LeadDe(n.s, t, E_ab) : n \in ValoresAceitos("nome"),
                            t \in {T_11987654321, T_21987654321}}

\* the spreadsheet after two earlier sessions saved leads with different
\* phones
DuasLinhas ==
    to_excel(DfColumns,
             <<registro(LeadDe(<<"C", " ", "D">>, T_11987654321, E_ab), Uuid(8),
                        NoUtm, IsoTime(8)),
               registro(LeadDe(<<"C", " ", "D">>, T_21987654321, E_Ab), Uuid(9),
                        NoUtm, IsoTime(9))>>)

InitStore ==
    /\ FunnelInit
    /\ xlsx \in {Absent, DuasLinhas}
    /\ csv = [exists |-> FALSE, linhas |-> <<>>]
    /\ clock = 0
    /\ entrada = [reg |-> registro(<<>>, Uuid(0), NoUtm, IsoTime(0)), io |-> AllOk]
    /\ saida = [caminho |-> "", resultado |-> "none"]

\* a session that completed the funnel with lead ld calls salvar_lead
Upsert(ld, io) ==
    /\ clock < MaxUpserts
    /\ LET reg == registro(ld, Uuid(clock), NoUtm, IsoTime(clock))
           r == salvar_lead(xlsx, csv, reg, io)
       IN  /\ xlsx' = r.xlsx
           /\ csv' = r.csv
           /\ entrada' = [reg |-> reg, io |-> io]
           /\ saida' = [caminho |-> r.caminho, resultado |-> r.resultado]
    /\ clock' = clock + 1
    /\ UNCHANGED funnelVars

NextStore == \E ld \in LeadsUpsert, io \in IOs : Upsert(ld, io)

SpecStore == InitStore /\ [][NextStore]_vars

-----------------------------------------------------------------------------
(* The validators and the normalizer as pure functions: one field, one raw *)
(* answer, validated, normalized, validated and normalized again.          *)

InitNorm ==
    /\ FunnelInit
    /\ StoreInit
    /\ entrada \in [campo : Campos, raw : RawPool]
    /\ saida = NoSaida

\* saida.a: the validator's verdict on the raw answer; b: the normalized value;
\* c: the validator's verdict on b; d: b normalized again
Normalizar ==
    /\ ~saida.feito
    /\ saida' =
          LET k == entrada.campo
              norm == normalizar_campo(k, PyStr(entrada.raw))
          IN  [feito |-> TRUE,
               a |-> PyStr(<<VALIDADORES(k, PyStr(entrada.raw))>>),
               b |-> norm,
               c |-> IF IsExc(norm) THEN norm ELSE PyStr(<<VALIDADORES(k, norm)>>),
               d |-> IF IsExc(norm) THEN norm ELSE normalizar_campo(k, norm)]
    /\ UNCHANGED <<funnelVars, storeVars, entrada>>

NextNorm == Normalizar

SpecNorm == InitNorm /\ [][NextNorm]_vars

-----------------------------------------------------------------------------
(* _gerar_dedup_key as a pure function: the keys of two records *)

KeyTelefones == {T_11987654321, T_21987654321, T_formatado, T_10_digitos, T_arab, <<>>}

KeyEmails == {E_ab, E_Ab, <<" ", "a", "@", "b", ".", "c", " ">>, E_xb}

KeyNomes == {<<"A", " ", "B">>, <<"C", " ", "D">>}

KeyLeads == {LeadDe(n, t, e) : n \in KeyNomes, t \in KeyTelefones, e \in KeyEmails}

InitKey ==
    /\ FunnelInit
    /\ StoreInit
    /\ entrada \in [a : KeyLeads, b : KeyLeads, utm_b : Utms]
    /\ saida = NoSaida

\* saida.a, saida.b: the dedup keys of the records salvar_lead builds from the
\* two leads, for two sessions at two times
GerarKeys ==
    /\ ~saida.feito
    /\ saida' =
          [NoSaida EXCEPT
              !.feito = TRUE,
              !.a = registro(entrada.a, Uuid(1), NoUtm, IsoTime(0))["dedup_key"],
              !.b = registro(entrada.b, Uuid(2), entrada.utm_b, IsoTime(1))["dedup_key"]]
    /\ UNCHANGED <<funnelVars, storeVars, entrada>>

NextKey == GerarKeys

SpecKey == InitKey /\ [][NextKey]_vars

-----------------------------------------------------------------------------
(* One visitor who gives the answers of the end-to-end scenario, possibly
   after answers that are rejected, with no spreadsheet on disk *)

AnaSilva == <<"A", "n", "a", " ", "S", "i", "l", "v", "a">>

AnaEmail == <<"a", "n", "a", "@", "e", "x", "a", "m", "p", "l", "e", ".", "c", "o", "m">>

Ate500Mil == <<"a", "t", "e_agudo", " ", "5", "0", "0", " ", "m", "i", "l">>

RespostasAna ==
    <<AnaSilva, T_11987654321, AnaEmail, <<"1">>, S_apartamento, <<"8", "0">>, <<"2">>,
      Ate500Mil, S_alta>>

\* what this visitor may type now: the scenario's answer, or one the field
\* rejects
RespostasAnaAgora ==
    IF step < Len(PERGUNTAS_keys)
    THEN {RespostasAna[step + 1]}
            \cup {r \in Respostas(PERGUNTAS_keys[step + 1]) :
                     VALIDADORES(PERGUNTAS_keys[step + 1], PyStr(r)) # "True"}
    ELSE {<<"o", "i">>, S_alta}

\* the CSV after an earlier session fell back to it
CsvAnterior ==
    append_to_csv([exists |-> FALSE, linhas |-> <<>>],
                  registro(LeadDe(<<"C", " ", "D">>, T_21987654321, E_ab), Uuid(0), NoUtm,
                           IsoTime(0)))

InitAna ==
    /\ FunnelInit
    /\ xlsx = Absent
    /\ csv \in {[exists |-> FALSE, linhas |-> <<>>], CsvAnterior}
    /\ clock = 1
    /\ entrada = <<>>
    /\ saida = NoSaida

NextAna ==
    \/ \E u \in Utms, texto_ai \in TextosAi : Open(u, texto_ai)
    \/ \E raw \in RespostasAnaAgora, texto_ai \in TextosAi, io \in IOsAgora :
          Submit(raw, texto_ai, io)

SpecAna == InitAna /\ [][NextAna]_vars

-----------------------------------------------------------------------------
(* One session run twice on the same inputs: first with the paraphraser
   disabled (run A), then again from the same start with the paraphraser
   returning anything it may (run B).  entrada is the script of run A, saida
   holds what each run went through. *)

MaxRuns == 11

\* what a run leaves behind apart from the text shown
Low ==
    [step |-> step, lead |-> lead, xlsx |-> xlsx, csv |-> csv,
     salvou |-> last.salvou, resultado |-> last.resultado]

Visto == <<last, step, inited>>

\* the script run is over and its effect is not yet noted
Pendente == Visto # saida.visto

InitPar ==
    /\ FunnelInit
    /\ xlsx \in {Absent, Anterior(T_11987654321)}
    /\ csv = [exists |-> FALSE, linhas |-> <<>>]
    /\ clock = 1
    /\ entrada = <<>>
    /\ saida = [fase |-> "A", visto |-> Visto, x0 |-> xlsx, a |-> <<>>, b |-> <<>>]

\* what the visitor of the two runs may type now: the scenario's answer or a
\* single letter, which every field but faixa_preco rejects
RespostasParAgora ==
    IF step < Len(PERGUNTAS_keys) THEN {RespostasAna[step + 1], <<"A">>}
    ELSE {<<"o", "i">>}

\* run A: the app with AYLA_USE_OPENAI off
RunA ==
    /\ saida.fase = "A"
    /\ ~Pendente
    /\ Len(entrada) < MaxRuns
    /\ \/ \E u \in Utms : Open(u, "None")
       \/ \E raw \in RespostasParAgora, io \in IOsAgora : Submit(raw, "None", io)

NotaA ==
    /\ saida.fase = "A"
    /\ Pendente
    /\ entrada' = Append(entrada, [op |-> last.op, raw |-> last.raw, io |-> last.io,
                                   utm |-> utm])
    /\ saida' = [saida EXCEPT !.visto = Visto, !.a = Append(@, Low)]
    /\ UNCHANGED <<funnelVars, storeVars>>

\* the same visitor, the same files, from the start
Reiniciar ==
    /\ saida.fase = "A"
    /\ ~Pendente
    /\ entrada # <<>>
    /\ inited' = FALSE
    /\ step' = 0
    /\ lead' = <<>>
    /\ greeted' = FALSE
    /\ utm' = NoUtm
    /\ last' = NoRun
    /\ xlsx' = saida.x0
    /\ csv' = [exists |-> FALSE, linhas |-> <<>>]
    /\ clock' = 1
    /\ saida' = [saida EXCEPT !.fase = "B", !.visto = <<NoRun, 0, FALSE>>]
    /\ UNCHANGED entrada

\* run B: the next input of the script, whatever the paraphraser returns
RunB ==
    /\ saida.fase = "B"
    /\ ~Pendente
    /\ Len(saida.b) < Len(entrada)
    /\ LET e == entrada[Len(saida.b) + 1] IN
       \E texto_ai \in TextosAi :
          IF e.op = "open" THEN Open(e.utm, texto_ai) ELSE Submit(e.raw, texto_ai, e.io)

NotaB ==
    /\ saida.fase = "B"
    /\ Pendente
    /\ saida' = [saida EXCEPT !.visto = Visto, !.b = Append(@, Low)]
    /\ UNCHANGED <<funnelVars, storeVars, entrada>>

NextPar == RunA \/ NotaA \/ Reiniciar \/ RunB \/ NotaB

SpecPar == InitPar /\ [][NextPar]_vars

-----------------------------------------------------------------------------
(* salvar_lead on a spreadsheet that was not written by this version of the
   function: one without the dedup_key column, one with it and without the
   quartos column *)

\* a hand-made list of contacts: three columns, one row
SemDedupKey ==
    [st |-> "ok", cols |-> <<"nome", "telefone", "email">>,
     rows |-> <<[c \in {"nome", "telefone", "email"} |->
                    CASE c = "nome" -> PyStr(<<"C", " ", "D">>)
                      [] c = "telefone" -> PyStr(T_11987654321)
                      [] c = "email" -> PyStr(E_ab)]>>]

ColunasSemQuartos == SelectSeq(DfColumns, LAMBDA c : c # "quartos")

\* the table of one saved lead, its quartos column deleted
SemQuartos ==
    [st |-> "ok", cols |-> ColunasSemQuartos,
     rows |-> <<[c \in Range(ColunasSemQuartos) |->
                    Cell(registro(LeadDe(<<"C", " ", "D">>, T_11987654321, E_ab), Uuid(8),
                                  NoUtm, IsoTime(8))[c])]>>]

InitLegado ==
    /\ FunnelInit
    /\ xlsx \in {SemDedupKey, SemQuartos}
    /\ csv = [exists |-> FALSE, linhas |-> <<>>]
    /\ clock = 0
    /\ entrada = [reg |-> registro(<<>>, Uuid(0), NoUtm, IsoTime(0)), io |-> AllOk]
    /\ saida = [caminho |-> "", resultado |-> "none"]

NextLegado == \E ld \in LeadsUpsert, io \in IOs : Upsert(ld, io)

SpecLegado == InitLegado /\ [][NextLegado]_vars

-----------------------------------------------------------------------------
(* salvar_lead on a spreadsheet in which one dedup key has two rows, as two
   sessions saving at once, or an edit by hand, can leave it *)

Duplicada ==
    to_excel(DfColumns,
             <<registro(LeadDe(<<"C", " ", "D">>, T_11987654321, E_ab), Uuid(6),
                        NoUtm, IsoTime(6)),
               registro(LeadDe(<<"C", " ", "D">>, T_21987654321, E_xb), Uuid(7),
                        NoUtm, IsoTime(7)),
               registro(LeadDe(<<"A", " ", "B">>, T_11987654321, E_Ab), Uuid(8),
                        NoUtm, IsoTime(8))>>)

InitDup ==
    /\ FunnelInit
    /\ xlsx = Duplicada
    /\ csv = [exists |-> FALSE, linhas |-> <<>>]
    /\ clock = 0
    /\ entrada = [reg |-> registro(<<>>, Uuid(0), NoUtm, IsoTime(0)), io |-> AllOk]
    /\ saida = [caminho |-> "", resultado |-> "none"]

NextDup == \E ld \in LeadsUpsert, io \in IOs : Upsert(ld, io)

SpecDup == InitDup /\ [][NextDup]_vars

-----------------------------------------------------------------------------
(* Two sessions in salvar_lead at once, on the one spreadsheet.  Each reads
   the file (lines 190-191) and later writes the whole table back (lines
   192-209); nothing orders the steps of one against those of the other.
   entrada[p] is the record of session p, saida[p] its position, the frame it
   read, what it returned, and how many writes had been made when it read
   and when it wrote; clock counts the writes. *)

Sessoes == {1, 2}

InitRace ==
    /\ FunnelInit
    /\ xlsx \in {Absent, DuasLinhas}
    /\ csv = [exists |-> FALSE, linhas |-> <<>>]
    /\ clock = 0
    /\ entrada \in {[p \in Sessoes |-> registro(f[p], Uuid(p), NoUtm, IsoTime(p))] :
                      f \in [Sessoes -> LeadsUpsert]}
    /\ saida = [p \in Sessoes |->
                  [pc |-> "inicio", atual |-> Absent, resultado |-> "none",
                   leu |-> 0, gravou |-> 0]]

\* lines 190-191: xlsx_path.exists() and pd.read_excel
Carregar(p) ==
    /\ saida[p].pc = "inicio"
    /\ saida' = [saida EXCEPT ![p] = [@ EXCEPT !.pc = "carregou", !.atual = xlsx,
                                              !.leu = clock]]
    /\ UNCHANGED <<funnelVars, storeVars, entrada>>

\* Gravar working on the file as it is now, not on the frame it read
Gravar_rele(p) ==
    /\ saida[p].pc = "carregou"
    /\ LET r == PrimaryPath(xlsx, entrada[p], AllOk) IN
       /\ xlsx' = r.xlsx
       /\ saida' = [saida EXCEPT ![p] = [@ EXCEPT !.pc = "fim", !.resultado = r.resultado,
                                                 !.gravou = clock + 1]]
    /\ clock' = clock + 1
    /\ UNCHANGED <<funnelVars, csv, entrada>>

\* lines 192-209: the upsert on the frame that was read, and to_excel of the
\* whole frame
Gravar(p) ==
    /\ saida[p].pc = "carregou"
    /\ LET r == PrimaryPath(saida[p].atual, entrada[p], AllOk) IN
       /\ xlsx' = r.xlsx
       /\ saida' = [saida EXCEPT ![p] = [@ EXCEPT !.pc = "fim", !.resultado = r.resultado,
                                                 !.gravou = clock + 1]]
    /\ clock' = clock + 1
    /\ UNCHANGED <<funnelVars, csv, entrada>>

NextRace == \E p \in Sessoes : Carregar(p) \/ Gravar(p)

SpecRace == InitRace /\ [][NextRace]_vars

-----------------------------------------------------------------------------
(* Claims about the funnel *)

NumCampos == Len(PERGUNTAS_keys)

\* the field asked at step st
CampoDe(st) == PERGUNTAS_keys[st + 1]

\* C1: the step never decreases from one call to the next and is always in
\* 0..9, whatever is submitted.
C1_StepMonotono ==
    /\ step \in 0..NumCampos
    /\ [][step <= step' /\ step' \in 0..NumCampos]_vars

\* C1 witness: the funnel is complete and a later message was submitted
C1_Witness == step = NumCampos /\ last.op = "submit" /\ last.reply = <<Resposta>>

\* C2: a submission at a step below 9 that the field's validator rejects
\* leaves step and lead as they were, and the reply is the field's error
\* message followed by the field's canonical prompt.
C2_RejeitadaNaoMuda ==
    [][(/\ last'.op = "submit"
        /\ step < NumCampos
        /\ VALIDADORES(CampoDe(step), PyStr(last'.raw)) # "True")
       => (/\ step' = step
           /\ lead' = lead
           /\ last'.reply = <<Msg("erro", CampoDe(step)), Msg("pergunta", CampoDe(step))>>)
      ]_vars

\* C2 witness: an answer was rejected after earlier answers were stored
C2_Witness ==
    /\ last.op = "submit"
    /\ step \in 1..(NumCampos - 1)
    /\ VALIDADORES(CampoDe(step), PyStr(last.raw)) # "True"
    /\ last.reply[1].kind = "erro"

\* C3: a field key is in lead if and only if the field's position is below
\* the step.
C3_LeadAteStep ==
    \A i \in 1..NumCampos : (PERGUNTAS_keys[i] \in DOMAIN lead) <=> (i - 1 < step)

\* C3 witness: the normalizer raised on an accepted answer in mid-funnel
C3_Witness ==
    /\ last.op = "submit"
    /\ last.resultado = "ValueError"
    /\ step = 5
    /\ DOMAIN lead = {PERGUNTAS_keys[i] : i \in 1..5}

\* C4: once the step is 9, a submission runs no validator, does not call
\* salvar_lead, changes neither step nor lead nor the files, and is answered
\* by the one fixed message.
C4_ConcluidoIgnora ==
    [][(last'.op = "submit" /\ step = NumCampos)
       => (/\ step' = step
           /\ lead' = lead
           /\ ~last'.validou
           /\ ~last'.salvou
           /\ <<xlsx, csv, clock>>' = <<xlsx, csv, clock>>
           /\ last'.reply = <<Msg("obrigada", "")>>)
      ]_vars

\* C4 witness: after completion, an answer that the last field would accept
C4_Witness ==
    /\ step = NumCampos
    /\ last.op = "submit"
    /\ last.raw = S_alta
    /\ ~last.validou
    /\ last.reply = <<Resposta>>

\* C5: a submission at step s below 9 that the field's validator accepts
\* stores the normalized value under the field's key and nothing else,
\* advances the step to s+1, and replies with the next field's prompt (or its
\* paraphrase) or, at s+1 = 9, calls salvar_lead and replies with the file
\* name and status it returned.
C5_AceitaArmazenaAvanca ==
    [][(/\ last'.op = "submit"
        /\ step < NumCampos
        /\ VALIDADORES(CampoDe(step), PyStr(last'.raw)) = "True")
       => (/\ lead' = (CampoDe(step) :> normalizar_campo(CampoDe(step), PyStr(last'.raw)))
                          @@ lead
           /\ step' = step + 1
           /\ step + 1 < NumCampos
                => /\ ~last'.salvou
                   /\ last'.reply \in {<<Entendi, Pergunta(CampoDe(step + 1))>>,
                                       <<Entendi, TextoAi(CampoDe(step + 1))>>}
           /\ step + 1 = NumCampos
                => /\ last'.salvou
                   /\ last'.resultado # "raised"
                        => /\ Len(last'.reply) = 2
                           /\ last'.reply[2].kind = "final"
                           /\ last'.reply[2].arg =
                                 (IF last'.resultado = "appended_csv"
                                  THEN CSV_NAME ELSE XLSX_NAME)
                           /\ last'.reply[2].atualizado = (last'.resultado = "updated"))
      ]_vars

\* the nine field values of the scenario's record
LeadAna ==
    [k \in Campos |->
        CASE k = "nome" -> PyStr(AnaSilva)
          [] k = "telefone" -> PyStr(T_11987654321)
          [] k = "email" -> PyStr(AnaEmail)
          [] k = "operacao" -> PyStr(S_compra)
          [] k = "tipo_imovel" -> PyStr(S_apartamento)
          [] k = "metragem" -> PyInt(<<"8", "0">>)
          [] k = "quartos" -> PyInt(<<"2">>)
          [] k = "faixa_preco" -> PyStr(Ate500Mil)
          [] k = "urgencia" -> PyStr(S_alta)]

\* C11: from a fresh session and no spreadsheet, each answer of the scenario
\* is accepted at its step, and the ninth, when the files can be written,
\* finalizes with created in the spreadsheet, which then holds exactly one
\* row with the scenario's nine values.
C11_CenarioAna ==
    [][(/\ last'.op = "submit"
        /\ step < NumCampos
        /\ last'.raw = RespostasAna[step + 1])
       => (/\ step' = step + 1
           /\ lead' = [k \in {PERGUNTAS_keys[i] : i \in 1..(step + 1)} |-> LeadAna[k]]
           /\ (step' = NumCampos /\ last'.io.primary = "ok")
                => /\ last'.salvou
                   /\ last'.resultado = "created"
                   /\ last'.reply = <<Entendi, MsgFinal(XLSX_NAME, "created")>>
                   /\ xlsx'.st = "ok"
                   /\ Len(xlsx'.rows) = 1
                   /\ \A k \in Campos : xlsx'.rows[1][k] = LeadAna[k]
                   /\ csv' = csv)
      ]_vars

\* C11 witness: the ninth answer of the scenario was just accepted and saved
C11_Witness ==
    /\ step = NumCampos
    /\ last.raw = S_alta
    /\ last.salvou
    /\ last.resultado = "created"
    /\ Len(xlsx.rows) = 1
    /\ xlsx.rows[1]["nome"] = PyStr(AnaSilva)
    /\ xlsx.rows[1]["metragem"] = PyInt(<<"8", "0">>)

\* C12: two runs of a session on the same inputs, one with the paraphraser
\* disabled and one with the paraphraser returning a text or nothing at each
\* call, go through the same steps and answers and leave the same files and
\* status; and with the paraphraser disabled the prompt shown is the
\* canonical prompt of the current field.
C12_ParafraseNaoInterfere ==
    /\ saida.fase = "B"
         => /\ Len(saida.b) <= Len(saida.a)
            /\ \A i \in 1..Len(saida.b) : saida.b[i] = saida.a[i]
            /\ ~Pendente => Low = (IF saida.b = <<>>
                                   THEN [step |-> 0, lead |-> <<>>, xlsx |-> saida.x0,
                                         csv |-> [exists |-> FALSE, linhas |-> <<>>],
                                         salvou |-> FALSE, resultado |-> "none"]
                                   ELSE saida.a[Len(saida.b)])
    /\ (saida.fase = "A" /\ inited /\ step < NumCampos /\ last.reply # <<>>)
         => last.reply[Len(last.reply)] = Msg("pergunta", CampoDe(step))

\* C12 witness: run B repeated, to its end, a run A of the whole funnel that
\* ended with salvar_lead called
C12_Witness ==
    /\ saida.fase = "B"
    /\ Len(saida.b) = Len(saida.a)
    /\ Len(saida.b) >= 10
    /\ step = NumCampos
    /\ saida.b[10].salvou
    /\ \E i \in 1..9 : saida.b[i].step = i - 1
    /\ saida.b[9].step = 8

\* C14: when the step is 9, lead holds a name of two or more words, a phone
\* of 11 digits 0-9, an e-mail of the shape local@domain.tld, compra or
\* aluguel, a property type and an urgency of their lists in lower case, and
\* area and bedrooms as non-negative integers.
C14_RegistroBemFormado ==
    step = NumCampos
       => /\ DOMAIN lead = Campos
          /\ lead["nome"].t = "str" /\ SplitLen(lead["nome"].s) >= 2
          /\ lead["telefone"].t = "str"
          /\ Len(lead["telefone"].s) = 11
          /\ \A i \in 1..11 : IsAsciiDigit(lead["telefone"].s[i])
          /\ lead["email"].t = "str" /\ EmailMatch(lead["email"].s)
          /\ lead["operacao"] \in {PyStr(S_compra), PyStr(S_aluguel)}
          /\ lead["tipo_imovel"] \in {PyStr(S_casa), PyStr(S_apartamento), PyStr(S_outro)}
          /\ lead["metragem"].t = "int" /\ lead["quartos"].t = "int"
          /\ \A i \in 1..Len(lead["metragem"].s) : IsAsciiDigit(lead["metragem"].s[i])
          /\ \A i \in 1..Len(lead["quartos"].s) : IsAsciiDigit(lead["quartos"].s[i])
          /\ lead["faixa_preco"].t = "str"
          /\ lead["urgencia"] \in {PyStr(S_alta), PyStr(S_media), PyStr(S_baixa)}

\* C18: a session calls salvar_lead exactly once, in the run that takes the
\* step from 8 to 9: never at a lower step, not in the greeting, not for a
\* rejected answer, and never again once the funnel is complete.  clock - 1
\* is the number of calls so far.
C18_SalvaUmaVez ==
    /\ clock = (IF step = NumCampos THEN 2 ELSE 1)
    /\ [][/\ last'.salvou <=> (step = NumCampos - 1 /\ step' = NumCampos)
          /\ clock' = (IF last'.salvou THEN clock + 1 ELSE clock)]_vars

\* C18 witness: the funnel was completed and saved, and a later message was
\* answered
C18_Witness ==
    /\ step = NumCampos
    /\ clock = 2
    /\ last.op = "submit"
    /\ last.raw = <<"o", "i">>
    /\ ~last.salvou
    /\ xlsx.st = "ok"

\* whether the try block of salvar_lead raises, given the spreadsheet and
\* what the environment does
PrimaryFails(x, io) ==
    \/ x.st = "corrupt"
    \/ x.st = "ok" /\ io.primary # "ok"
    \/ x.st = "absent" /\ io.primary \in {"write_fails", "write_torn"}

\* C8: when the primary path and the append to the CSV both fail, salvar_lead
\* returns no status, the exception reaches the caller, and no message saying
\* the record was saved is appended.
C8_FalhaDuplaExplicita ==
    [][(last'.salvou /\ PrimaryFails(xlsx, last'.io) /\ ~last'.io.csv)
       => (/\ last'.resultado = "raised"
           /\ \A i \in 1..Len(last'.reply) : last'.reply[i].kind # "final"
           /\ csv' = csv)
      ]_vars

\* C8 witness: the last answer was accepted and both writes failed
C8_Witness ==
    /\ step = NumCampos
    /\ last.salvou
    /\ ~last.io.csv
    /\ last.io.primary = "write_fails"
    /\ last.resultado = "raised"

\* the session's record is a row of the spreadsheet
NaPlanilha ==
    \E i \in 1..Len(xlsx.rows) :
       /\ xlsx.rows[i]["lead_id"] = LEAD_ID
       /\ \A k \in Campos : xlsx.rows[i][k] = (IF lead[k].s = <<>> THEN NaN ELSE lead[k])

\* the session's record is a line of the CSV
NoCsv ==
    \E i \in 1..Len(csv.linhas) :
       /\ ~csv.linhas[i].header
       /\ csv.linhas[i].cells[1] = LEAD_ID.s
       /\ \A j \in 1..Len(DfColumns) :
             DfColumns[j] \in Campos => csv.linhas[i].cells[j] = lead[DfColumns[j]].s

\* C19 as stated: whenever the step is 9, the session's record is in the
\* spreadsheet or in the CSV.
C19_ConcluidoTemRegistro == step = NumCampos => (NaPlanilha \/ NoCsv)

\* C19 amended: the run that takes the step to 9 leaves the session's record
\* in the file salvar_lead names, unless the spreadsheet could not be read or
\* written and the CSV could not be written either, in which case the step
\* is 9 all the same and the record is in neither file; afterwards the
\* session changes neither file.
C19_RegistroSalvoSeNaoFalhouTudo ==
    [][/\ (step = NumCampos - 1 /\ step' = NumCampos)
            => /\ last'.resultado = "raised"
                    <=> (PrimaryFails(xlsx, last'.io) /\ ~last'.io.csv)
               /\ last'.resultado \in {"created", "updated"} => NaPlanilha'
               /\ last'.resultado = "appended_csv" => NoCsv'
               /\ last'.resultado = "raised" => ~NaPlanilha' /\ ~NoCsv'
               /\ last'.resultado \in {"created", "updated", "appended_csv", "raised"}
       /\ step = NumCampos => (xlsx' = xlsx /\ csv' = csv /\ step' = step)
      ]_vars

\* C19 witness: the spreadsheet could not be written, the record went to the
\* CSV, and the funnel is complete
C19_Witness ==
    /\ step = NumCampos
    /\ last.salvou
    /\ last.io.primary = "write_fails"
    /\ last.resultado = "appended_csv"
    /\ NoCsv
    /\ ~NaPlanilha

-----------------------------------------------------------------------------
(* Claims about salvar_lead *)

\* the dedup_key cells of the spreadsheet's rows
KeyCells(x) == [i \in 1..Len(x.rows) |-> x.rows[i]["dedup_key"]]

NoDuplicateKey(x) ==
    \A i, j \in 1..Len(x.rows) : KeyCells(x)[i] = KeyCells(x)[j] => i = j

\* the row holds the values of the record, an empty str as an empty cell
RowIs(row, reg) ==
    \A c \in DOMAIN reg : row[c] = (IF reg[c].s = <<>> THEN NaN ELSE reg[c])

\* C6: from an absent or duplicate-free spreadsheet, a salvar_lead whose
\* reads and writes succeed keeps at most one row per dedup key: with the
\* key present it returns updated, the row count is unchanged and the key's
\* row holds the new record; with the key absent it returns created and the
\* row count grows by exactly one.
C6_UmaLinhaPorChave ==
    /\ NoDuplicateKey(xlsx)
    /\ [][(clock' = clock + 1 /\ entrada'.io.primary = "ok" /\ xlsx.st # "corrupt")
          => LET reg == entrada'.reg
                 antes == {i \in 1..Len(xlsx.rows) : KeyCells(xlsx)[i] = reg["dedup_key"]}
                 depois == {i \in 1..Len(xlsx'.rows) : KeyCells(xlsx')[i] = reg["dedup_key"]}
             IN  /\ xlsx'.st = "ok"
                 /\ NoDuplicateKey(xlsx')
                 /\ saida'.caminho = XLSX_NAME
                 /\ Cardinality(depois) = 1
                 /\ \A i \in depois : RowIs(xlsx'.rows[i], reg)
                 /\ antes # {}
                      => /\ saida'.resultado = "updated"
                         /\ Len(xlsx'.rows) = Len(xlsx.rows)
                         /\ depois = antes
                 /\ antes = {}
                      => /\ saida'.resultado = "created"
                         /\ Len(xlsx'.rows) = Len(xlsx.rows) + 1
         ]_vars

\* C6 witness: a record replaced the row of an earlier record with its key,
\* under another name, in a spreadsheet of two rows
C6_Witness ==
    /\ clock >= 2
    /\ saida.resultado = "updated"
    /\ Len(xlsx.rows) = 2
    /\ \E i \in 1..2 :
          /\ xlsx.rows[i]["lead_id"] = Uuid(clock - 1)
          /\ xlsx.rows[i]["nome"] = PyStr(<<"A", " ", "B">>)

\* the column order of the claim: the metadata, the dedup key last among
\* them, then the nine fields
OrdemDeclarada ==
    <<"lead_id", "criado_em", "app_origin">> \o UtmKeys \o <<"dedup_key">>
        \o PERGUNTAS_keys

\* C13: whatever salvar_lead writes, to the spreadsheet or to the CSV, has
\* its columns in the order identifier, creation timestamp, origin, the five
\* attribution fields, dedup key, the nine fields in funnel order.
C13_OrdemDasColunas ==
    /\ saida.resultado \in {"created", "updated"} => xlsx.cols = OrdemDeclarada
    /\ saida.resultado = "appended_csv"
         => \A i \in 1..Len(csv.linhas) :
               csv.linhas[i].header
                  => csv.linhas[i].cells = [j \in 1..Len(OrdemDeclarada) |-> <<OrdemDeclarada[j]>>]

\* the rows of the spreadsheet written for session p
LinhasDe(p) == {i \in 1..Len(xlsx.rows) : xlsx.rows[i]["lead_id"] = Uuid(p)}

\* C16: salvar_lead calls of two sessions are not serialized: whenever both
\* read the spreadsheet before either wrote it, both return created or
\* updated, and the spreadsheet is left with the row of the session that
\* wrote last and with nothing of the other session's record.
C16_GravacaoPerdida ==
    \A p, q \in Sessoes :
       (/\ saida[p].pc = "fim" /\ saida[q].pc = "fim"
        /\ saida[p].leu = 0 /\ saida[q].leu = 0
        /\ saida[p].gravou < saida[q].gravou)
          => /\ saida[p].resultado \in {"created", "updated"}
             /\ saida[q].resultado \in {"created", "updated"}
             /\ LinhasDe(p) = {}
             /\ Cardinality(LinhasDe(q)) = 1
             /\ \A i \in 1..Len(xlsx.rows) :
                   xlsx.rows[i]["dedup_key"] = entrada[p]["dedup_key"]
                      => \/ i \in LinhasDe(q)
                         \/ i <= Len(saida[q].atual.rows)
                              /\ xlsx.rows[i] = saida[q].atual.rows[i]

\* C16 witness: two sessions with different phones both found no
\* spreadsheet, both returned created, and the spreadsheet has one row
C16_Witness ==
    /\ saida[1].pc = "fim" /\ saida[2].pc = "fim"
    /\ saida[1].leu = 0 /\ saida[2].leu = 0
    /\ saida[1].resultado = "created" /\ saida[2].resultado = "created"
    /\ entrada[1]["dedup_key"] # entrada[2]["dedup_key"]
    /\ Len(xlsx.rows) = 1

\* the columns of DfColumns the table x lacks, in order
Faltam(x) == SelectSeq(DfColumns, LAMBDA c : c \notin Range(x.cols))

\* what C17 promises of a step: created, the record appended as a new row, the
\* missing columns added and empty in the rows there were, those rows
\* otherwise as they were, the CSV untouched
AcrescentaLinha ==
    /\ saida' = [caminho |-> XLSX_NAME, resultado |-> "created"]
    /\ xlsx'.st = "ok"
    /\ xlsx'.cols = xlsx.cols \o Faltam(xlsx)
    /\ Len(xlsx'.rows) = Len(xlsx.rows) + 1
    /\ \A i \in 1..Len(xlsx.rows) :
          /\ \A c \in Range(xlsx.cols) : xlsx'.rows[i][c] = xlsx.rows[i][c]
          /\ \A c \in Range(Faltam(xlsx)) : xlsx'.rows[i][c] = NaN
    /\ RowIs(xlsx'.rows[Len(xlsx.rows) + 1], entrada'.reg)
    /\ csv' = csv

\* C17 as stated: a spreadsheet that loads and lacks the dedup_key column, or
\* other columns of the record, gets the record appended as a new row and
\* salvar_lead returns created.
C17_FaltandoColunasCria ==
    [][(/\ clock' = clock + 1
        /\ entrada'.io.primary = "ok"
        /\ xlsx.st = "ok"
        /\ Faltam(xlsx) # <<>>)
       => AcrescentaLinha]_vars

\* C17 amended: without the dedup_key column the record is appended as a new
\* row and created is returned; with the dedup_key column and without others,
\* the record is appended and created returned unless a row has its key, in
\* which case that row is overwritten, the missing columns are added, empty
\* in the other rows, and updated is returned.
C17_FaltandoDedupKeyCria ==
    [][(/\ clock' = clock + 1
        /\ entrada'.io.primary = "ok"
        /\ xlsx.st = "ok"
        /\ Faltam(xlsx) # <<>>)
       => IF "dedup_key" \notin Range(xlsx.cols)
             \/ \A i \in 1..Len(xlsx.rows) : KeyCells(xlsx)[i] # entrada'.reg["dedup_key"]
          THEN AcrescentaLinha
          ELSE /\ saida' = [caminho |-> XLSX_NAME, resultado |-> "updated"]
               /\ xlsx'.st = "ok"
               /\ xlsx'.cols = xlsx.cols \o Faltam(xlsx)
               /\ Len(xlsx'.rows) = Len(xlsx.rows)
               /\ \A i \in 1..Len(xlsx.rows) :
                     IF KeyCells(xlsx)[i] = entrada'.reg["dedup_key"]
                        /\ \A j \in 1..(i - 1) : KeyCells(xlsx)[j] # entrada'.reg["dedup_key"]
                     THEN RowIs(xlsx'.rows[i], entrada'.reg)
                     ELSE /\ \A c \in Range(xlsx.cols) : xlsx'.rows[i][c] = xlsx.rows[i][c]
                          /\ \A c \in Range(Faltam(xlsx)) : xlsx'.rows[i][c] = NaN
               /\ csv' = csv
      ]_vars

\* C17 witness: the person of the list of contacts was saved as a second
\* row, and the first row has no dedup key
C17_Witness ==
    /\ clock = 1
    /\ saida.resultado = "created"
    /\ Len(xlsx.rows) = 2
    /\ xlsx.rows[1]["dedup_key"] = NaN
    /\ xlsx.rows[1]["telefone"] = xlsx.rows[2]["telefone"]
    /\ xlsx.cols = <<"nome", "telefone", "email">> \o Faltam(SemDedupKey)

\* the rows of x with dedup key k
ComChave(x, k) == {i \in 1..Len(x.rows) : KeyCells(x)[i] = k}

\* C20: a salvar_lead that succeeds on the spreadsheet, for a record with
\* dedup key k, leaves every row with another key as it was in the columns
\* there were, at the same place; when it returns updated only the first row
\* with key k is changed; and the CSV is not touched.
C20_OutrasLinhasIntactas ==
    [][(/\ clock' = clock + 1
        /\ saida'.resultado \in {"created", "updated"})
       => LET k == entrada'.reg["dedup_key"]
              com == ComChave(xlsx, k)
          IN  /\ csv' = csv
              /\ Len(xlsx'.rows) >= Len(xlsx.rows)
              /\ \A i \in 1..Len(xlsx.rows) :
                    (i \notin com \/ \E j \in com : j < i)
                       => \A c \in Range(xlsx.cols) : xlsx'.rows[i][c] = xlsx.rows[i][c]
              /\ saida'.resultado = "updated"
                    => /\ com # {}
                       /\ Len(xlsx'.rows) = Len(xlsx.rows)
                       /\ \A i \in com :
                             (\A j \in com : i <= j) => RowIs(xlsx'.rows[i], entrada'.reg)
              /\ saida'.resultado = "created"
                    => /\ com = {}
                       /\ Len(xlsx'.rows) = Len(xlsx.rows) + 1
      ]_vars

\* C20 witness: of two rows with the record's key the first was overwritten
\* and the second, like the row with another key, is as it was
C20_Witness ==
    /\ clock = 1
    /\ saida.resultado = "updated"
    /\ Len(xlsx.rows) = 3
    /\ xlsx.rows[1]["lead_id"] = Uuid(0)
    /\ xlsx.rows[2] = Duplicada.rows[2]
    /\ xlsx.rows[3] = Duplicada.rows[3]
    /\ xlsx.rows[3]["dedup_key"] = xlsx.rows[1]["dedup_key"]

\* the lines of the CSV that are not headers
DataLines(f) == SelectSeq(f.linhas, LAMBDA l : ~l.header)

\* C7: when the spreadsheet exists and cannot be loaded, or a write of it
\* fails, and the CSV can be written, salvar_lead does not raise: it returns
\* the CSV and appended_csv, and the CSV is what it was plus a header, if
\* the file did not exist, plus one line holding the record, whatever keys
\* the CSV already holds.
C7_FallbackCsv ==
    [][(clock' = clock + 1 /\ PrimaryFails(xlsx, entrada'.io) /\ entrada'.io.csv)
       => LET n == Len(csv.linhas)
              m == Len(csv'.linhas)
          IN  /\ saida' = [caminho |-> CSV_NAME, resultado |-> "appended_csv"]
              /\ csv'.exists
              /\ m = n + (IF csv.exists THEN 1 ELSE 2)
              /\ SubSeq(csv'.linhas, 1, n) = csv.linhas
              /\ ~csv.exists => csv'.linhas[1].header
              /\ ~csv'.linhas[m].header
              /\ \A i \in 1..Len(DfColumns) :
                    csv'.linhas[m].cells[i] = entrada'.reg[DfColumns[i]].s
              /\ Len(DataLines(csv')) = Len(DataLines(csv)) + 1
      ]_vars

\* C7 witness: two records with one dedup key are both in the CSV, the
\* second appended after a failed load of the spreadsheet
C7_Witness ==
    /\ saida.resultado = "appended_csv"
    /\ entrada.io.primary = "read_fails"
    /\ Len(DataLines(csv)) = 2
    /\ DataLines(csv)[1].cells[Len(DfColumns)] = DataLines(csv)[2].cells[Len(DfColumns)]
    /\ Len(csv.linhas) = 3

-----------------------------------------------------------------------------
(* Claims about the validators *)

\* C15: the phone validator accepts a raw answer if and only if it is
\* exactly 11 characters, each one of 0-9, and the accepted phone is stored
\* unchanged.
C15_TelefoneOnzeAscii ==
    (saida.feito /\ entrada.campo = "telefone")
       => /\ (saida.a = PyStr(<<"True">>))
                <=> (Len(entrada.raw) = 11 /\ \A i \in 1..11 : IsAsciiDigit(entrada.raw[i]))
          /\ (saida.a = PyStr(<<"True">>)) => saida.b = PyStr(entrada.raw)

-----------------------------------------------------------------------------
(* Claims about the normalizer *)

PyTrue == PyStr(<<"True">>)

\* the fields whose normalized value is a str of the kind the visitor types
CamposTexto == {"nome", "telefone", "email", "tipo_imovel", "faixa_preco", "urgencia"}

\* C10 as stated: for each of the nine fields and every raw answer its
\* validator accepts, the normalized value is accepted by the same validator
\* and normalizing it again returns it unchanged.
C10_NormalizarIdempotenteTodos ==
    (saida.feito /\ saida.a = PyTrue) => (saida.c = PyTrue /\ saida.d = saida.b)

\* C10 amended: for nome, telefone, email, tipo_imovel, faixa_preco and
\* urgencia, every raw answer the validator accepts normalizes to a value the
\* validator accepts and that normalizes to itself.
C10_NormalizarIdempotente ==
    (saida.feito /\ entrada.campo \in CamposTexto /\ saida.a = PyTrue)
        => (saida.c = PyTrue /\ saida.d = saida.b)

\* C10 witness: an accepted answer that normalization changed, normalized twice
C10_Witness ==
    /\ saida.feito
    /\ entrada.campo \in {"tipo_imovel", "urgencia", "nome"}
    /\ saida.a = PyTrue
    /\ saida.b # PyStr(entrada.raw)
    /\ saida.d = saida.b

-----------------------------------------------------------------------------
(* Claims about the dedup key *)

RECURSIVE OnlyDigits(_)
OnlyDigits(s) ==
    IF s = <<>> THEN <<>>
    ELSE IF IsReDigit(Head(s)) THEN <<Head(s)>> \o OnlyDigits(Tail(s))
    ELSE OnlyDigits(Tail(s))

\* the canonical pair of a lead: the phone's digits, or nothing unless they
\* are eleven; the e-mail trimmed and in lower case
CanonicalPair(ld) ==
    <<IF Len(OnlyDigits(ld["telefone"].s)) = 11 THEN OnlyDigits(ld["telefone"].s)
      ELSE <<>>,
      lower(strip(ld["email"].s))>>

\* C9: two records get the same dedup key exactly when their canonical
\* (phone, e-mail) pairs are equal, whatever the formatting of phone and
\* e-mail and whatever the other fields, the session and the time.
C9_DedupKeyCanonica ==
    saida.feito =>
        ((saida.a = saida.b) <=> (CanonicalPair(entrada.a) = CanonicalPair(entrada.b)))

\* C9 witness: two records that differ in name, in phone formatting and in
\* e-mail case, with one key
C9_Witness ==
    /\ saida.feito
    /\ entrada.a["nome"] # entrada.b["nome"]
    /\ entrada.a["telefone"] = PyStr(T_formatado)
    /\ entrada.b["telefone"] = PyStr(T_11987654321)
    /\ entrada.a["email"] # entrada.b["email"]
    /\ saida.a = saida.b

=============================================================================
